---- MODULE Spec2Model ----
(***************************************************************************)
(* Model of py-nougat (src/src/pynougat.py): the nested-value accessor     *)
(* nougat(data, *keys, default, separator, transform, strict_types) and    *)
(* the lru_cache'd accessor factory nougat_cached.                         *)
(*                                                                         *)
(* Python values are tagged records [t |-> type, v |-> payload]; a str is  *)
(* a sequence of one-character strings, a dict a sequence of <<key,value>> *)
(* pairs in insertion order.  The result of evaluating a Python expression *)
(* is [kind |-> "ok", val |-> value] or [kind |-> "exc", val |-> exception]*)
(* and the outcome of a call is [kind |-> "return"/"raise", val |-> ...].  *)
(***************************************************************************)
EXTENDS Integers, Sequences, FiniteSets, TLC

VARIABLES pc, data, path, keys, default, separator, transform, strict_types,
          result, i, exc, outcome, tcalls, prev, cache, acc, req

vars == <<pc, data, path, keys, default, separator, transform, strict_types,
          result, i, exc, outcome, tcalls, prev, cache, acc, req>>

(***************************************************************************)
(* Bounds of the model.                                                    *)
(***************************************************************************)
\* longest path (number of steps) a caller passes
MaxPath == 2
\* capacity of the accessor cache in the model (lru_cache(maxsize=128) in
\* the source, scaled down so that eviction happens within the bounds)
CacheCapacity == 2

(***************************************************************************)
(* Python values.                                                          *)
(***************************************************************************)
NoneV == [t |-> "none", v |-> 0]
IntV(n) == [t |-> "int", v |-> n]
\* the float n.0
FloatV(n) == [t |-> "float", v |-> n]
\* bool, with v = 0 for False and 1 for True (bool is a subclass of int)
BoolV(n) == [t |-> "bool", v |-> n]
StrV(s) == [t |-> "str", v |-> s]
ListV(xs) == [t |-> "list", v |-> xs]
TupleV(xs) == [t |-> "tuple", v |-> xs]
DictV(items) == [t |-> "dict", v |-> items]
\* an object whose get(key, default) delegates to a dict's get
CustomGettable(items) == [t |-> "CustomGettable", v |-> items]
\* an object whose __getitem__ returns data[key] or raises KeyError
CustomSubscriptable(items) == [t |-> "CustomSubscriptable", v |-> items]
\* an object with neither get nor __getitem__
NoMethods == [t |-> "NoMethods", v |-> 0]
\* the module-level sentinel object
_SENTINEL == [t |-> "sentinel", v |-> 0]
\* an exception instance of the named class
ExcV(name) == [t |-> name, v |-> 0]

Ok(x) == [kind |-> "ok", val |-> x]
Exc(name) == [kind |-> "exc", val |-> ExcV(name)]
Return(x) == [kind |-> "return", val |-> x]
Raise(e) == [kind |-> "raise", val |-> e]
NoOutcome == [kind |-> "none", val |-> NoneV]

(***************************************************************************)
(* Python primitives used by nougat.                                       *)
(***************************************************************************)
\* isinstance(x, int)
IsInt(x) == x.t \in {"int", "bool"}
\* isinstance(x, str)
IsStr(x) == x.t = "str"
\* isinstance(x, tuple)
IsTuple(x) == x.t = "tuple"
\* isinstance(x, dict)
IsDict(x) == x.t = "dict"
\* isinstance(x, (list, tuple))
IsListOrTuple(x) == x.t \in {"list", "tuple"}
\* hasattr(x, 'get')
HasGet(x) == x.t \in {"dict", "CustomGettable"}
\* hasattr(x, '__getitem__')
HasGetItem(x) == x.t \in {"dict", "list", "tuple", "str", "CustomSubscriptable"}
IsNumber(x) == x.t \in {"int", "bool", "float"}

\* hash(x) succeeds: lists and dicts are unhashable, a tuple is hashable
\* when its elements are
RECURSIVE Hashable(_)
Hashable(x) ==
    CASE x.t \in {"list", "dict"} -> FALSE
      [] x.t = "tuple" -> \A j \in 1..Len(x.v) : Hashable(x.v[j])
      [] OTHER -> TRUE

\* a == b as Python evaluates it for keys: numbers compare by value across
\* int, bool and float; tuples elementwise; everything else structurally
RECURSIVE PyEq(_, _)
PyEq(a, b) ==
    CASE IsNumber(a) /\ IsNumber(b) -> a.v = b.v
      [] IsTuple(a) /\ IsTuple(b) ->
            /\ Len(a.v) = Len(b.v)
            /\ \A j \in 1..Len(a.v) : PyEq(a.v[j], b.v[j])
      [] OTHER -> a = b

\* key in d, for the item sequence of a dict and a hashable key
DictHas(items, key) == \E j \in 1..Len(items) : PyEq(items[j][1], key)
\* d[key], for a key that is present
DictAt(items, key) ==
    items[CHOOSE j \in 1..Len(items) : PyEq(items[j][1], key)][2]

\* dict.get(key, fallback); an unhashable key raises TypeError
DictGet(items, key, fallback) ==
    IF ~Hashable(key) THEN Exc("TypeError")
    ELSE IF DictHas(items, key) THEN Ok(DictAt(items, key))
    ELSE Ok(fallback)

\* xs[n] for a list, tuple or str and an int n: Python indexing, where a
\* negative n counts from the end
SeqIndex(c, n) ==
    LET len == Len(c.v)
        pos == IF n < 0 THEN n + len + 1 ELSE n + 1
    IN IF pos < 1 \/ pos > len THEN Exc("IndexError")
       ELSE IF IsStr(c) THEN Ok(StrV(<<c.v[pos]>>))
       ELSE Ok(c.v[pos])

\* c[key]
GetItem(c, key) ==
    CASE IsDict(c) ->
            IF ~Hashable(key) THEN Exc("TypeError")
            ELSE IF DictHas(c.v, key) THEN Ok(DictAt(c.v, key))
            ELSE Exc("KeyError")
      [] IsListOrTuple(c) \/ IsStr(c) ->
            IF IsInt(key) THEN SeqIndex(c, key.v) ELSE Exc("TypeError")
      [] c.t = "CustomSubscriptable" ->
            IF ~Hashable(key) THEN Exc("TypeError")
            ELSE IF DictHas(c.v, key) THEN Ok(DictAt(c.v, key))
            ELSE Exc("KeyError")
      [] OTHER -> Exc("TypeError")

\* c.get(key, fallback), for a cursor that has a get method
GetMethod(c, key, fallback) == DictGet(c.v, key, fallback)

Digits == <<"0", "1", "2", "3", "4", "5", "6", "7", "8", "9">>
IsDigit(ch) == \E d \in 1..Len(Digits) : Digits[d] = ch
DigitVal(ch) == (CHOOSE d \in 1..Len(Digits) : Digits[d] = ch) - 1
RECURSIVE DecimalVal(_)
DecimalVal(s) ==
    IF s = <<>> THEN 0
    ELSE 10 * DecimalVal(SubSeq(s, 1, Len(s) - 1)) + DigitVal(s[Len(s)])

\* int(key): numbers convert, a str of decimal digits parses, any other str
\* raises ValueError, anything else TypeError
PyInt(key) ==
    CASE IsNumber(key) -> Ok(IntV(key.v))
      [] IsStr(key) ->
            IF key.v # <<>> /\ \A j \in 1..Len(key.v) : IsDigit(key.v[j])
            THEN Ok(IntV(DecimalVal(key.v)))
            ELSE Exc("ValueError")
      [] OTHER -> Exc("TypeError")

\* s.split(sep) for a non-empty sep: the pieces, as character sequences
StartsAt(s, sep, j) ==
    /\ j + Len(sep) - 1 <= Len(s)
    /\ SubSeq(s, j, j + Len(sep) - 1) = sep
RECURSIVE SplitFrom(_, _, _, _)
SplitFrom(s, sep, j, cur) ==
    IF j > Len(s) THEN <<cur>>
    ELSE IF StartsAt(s, sep, j)
         THEN <<cur>> \o SplitFrom(s, sep, j + Len(sep), <<>>)
         ELSE SplitFrom(s, sep, j + 1, Append(cur, s[j]))
\* str.split(sep): ValueError("empty separator") for sep == ""
StrSplit(s, sep) ==
    IF sep.v = <<>> THEN Exc("ValueError")
    ELSE LET pieces == SplitFrom(s.v, sep.v, 1, <<>>)
         IN Ok(TupleV([j \in 1..Len(pieces) |-> StrV(pieces[j])]))

\* len(x)
PyLen(x) ==
    IF x.t \in {"str", "list", "tuple", "dict"} THEN Ok(IntV(Len(x.v)))
    ELSE Exc("TypeError")

\* transform(value), after n earlier invocations of transform in the call.
\* "len" is the builtin; "flaky" is a stateful callable (as a mock is) that
\* raises ValueError when first invoked and returns its argument afterwards
ApplyTransform(tr, value, n) ==
    CASE tr = "len" -> PyLen(value)
      [] tr = "flaky" -> IF n = 0 THEN Exc("ValueError") ELSE Ok(value)
      [] OTHER -> Ok(value)

(***************************************************************************)
(* One step of nougat's loop, as a function of the cursor and the key.     *)
(* An "ok" result is the new cursor; an "exc" result is an exception that  *)
(* leaves the loop for the function's outer `except Exception`.            *)
(***************************************************************************)
\* the classes named by `except (KeyError, IndexError, TypeError)`
CaughtLookupError(r) == r.val.t \in {"KeyError", "IndexError", "TypeError"}

\* `if key in result: result = result[key] else: result = default`
DictStep(c, key, dflt) ==
    IF ~Hashable(key) THEN Exc("TypeError")
    ELSE IF DictHas(c.v, key) THEN Ok(DictAt(c.v, key))
    ELSE Ok(dflt)

\* `if 0 <= key < len(result): result = result[key] else: result = default`
SequenceStep(c, key, dflt) ==
    IF 0 <= key.v /\ key.v < Len(c.v) THEN SeqIndex(c, key.v) ELSE Ok(dflt)

\* mutant of GetStep: the probe written as `result.get(key)`, with None
\* taken for absence
GetStepNoneProbe(c, key, dflt) ==
    LET r == GetMethod(c, key, NoneV)
    IN IF r.kind = "exc" THEN r
       ELSE IF r.val = NoneV THEN Ok(dflt)
       ELSE r

\* `result = result.get(key, _SENTINEL)`, then default for the sentinel
GetStep(c, key, dflt) ==
    LET r == GetMethod(c, key, _SENTINEL)
    IN IF r.kind = "exc" THEN r
       ELSE IF r.val = _SENTINEL THEN Ok(dflt)
       ELSE r

\* `result[key]`, on a lookup error `result[int(key)]`, on a second lookup
\* error default; int(key) is inside the second try, so its TypeError is
\* caught and its ValueError is not
SubscriptStep(c, key, dflt) ==
    LET first == GetItem(c, key)
    IN IF first.kind = "ok" THEN first
       ELSE IF ~CaughtLookupError(first) THEN first
       ELSE LET n == PyInt(key)
            IN IF n.kind = "exc"
               THEN IF CaughtLookupError(n) THEN Ok(dflt) ELSE n
               ELSE LET second == GetItem(c, n.val)
                    IN IF second.kind = "ok" THEN second
                       ELSE IF CaughtLookupError(second) THEN Ok(dflt)
                       ELSE second

\* the final else: `raise TypeError(...)` if strict_types, else default
NoCapabilityStep(c, key, dflt, strict) ==
    IF strict THEN Exc("TypeError") ELSE Ok(dflt)

\* a scalar key against the cursor: the if/elif chain of the loop body
ScalarStep(c, key, dflt, strict) ==
    IF IsDict(c) THEN DictStep(c, key, dflt)
    ELSE IF IsListOrTuple(c) /\ IsInt(key) THEN SequenceStep(c, key, dflt)
    ELSE IF HasGet(c) /\ ~IsListOrTuple(c) THEN GetStep(c, key, dflt)
    ELSE IF HasGetItem(c) THEN SubscriptStep(c, key, dflt)
    ELSE NoCapabilityStep(c, key, dflt, strict)

\* one candidate of an alternative group: `result.get(alt_key)` for a
\* get-capable cursor that is no list or tuple, else `result[alt_key]`
AltTry(c, alt_key) ==
    IF HasGet(c) /\ ~IsListOrTuple(c) THEN GetMethod(c, alt_key, NoneV)
    ELSE GetItem(c, alt_key)

\* `for alt_key in key: try ... break / except ...: continue / else: default`
RECURSIVE AltFrom(_, _, _, _)
AltFrom(c, group, j, dflt) ==
    IF j > Len(group) THEN Ok(dflt)
    ELSE LET r == AltTry(c, group[j])
         IN IF r.kind = "ok" THEN r
            ELSE IF CaughtLookupError(r) THEN AltFrom(c, group, j + 1, dflt)
            ELSE r

\* a tuple key against the cursor
AltStep(c, key, dflt) == AltFrom(c, key.v, 1, dflt)

\* mutant of CaughtByOuter: the outer handler written as
\* `except (KeyError, IndexError, TypeError)`
OuterCatchesLookupErrorsOnly(e) == e.t \in {"KeyError", "IndexError", "TypeError"}

\* `except Exception`: every exception class the lookups and transforms of
\* the model raise derives from Exception
CaughtByOuter(e) == e.t \in {"KeyError", "IndexError", "TypeError", "ValueError"}

\* the body of `for key in keys`
LoopStep(c, key, dflt, strict) ==
    IF IsTuple(key) THEN AltStep(c, key, dflt)
    ELSE ScalarStep(c, key, dflt, strict)

\* mutant of SplitKeys: the split drops the empty pieces, as
\* `[p for p in keys[0].split(separator) if p]` would
SplitKeysDropEmpty(ks, sep) ==
    IF sep # NoneV /\ Len(ks) = 1 /\ IsStr(ks[1])
    THEN LET r == StrSplit(ks[1], sep)
         IN IF r.kind = "ok"
            THEN Ok(SelectSeq(r.val.v, LAMBDA piece : piece.v # <<>>))
            ELSE r
    ELSE Ok(ks)

\* `keys = tuple(keys[0].split(separator))` when a separator is given and
\* the path is one str; the keys unchanged otherwise
SplitKeys(ks, sep) ==
    IF sep # NoneV /\ Len(ks) = 1 /\ IsStr(ks[1])
    THEN LET r == StrSplit(ks[1], sep)
         IN IF r.kind = "ok" THEN Ok(r.val.v) ELSE r
    ELSE Ok(ks)

(***************************************************************************)
(* nougat as a function of its arguments: the outcome of one call.         *)
(***************************************************************************)
\* the loop from key j on: the final cursor ("ok"), the cursor held when an
\* exception reached the outer handler ("exc"), or an exception the handler
\* does not catch ("raise")
RECURSIVE Walk(_, _, _, _, _)
Walk(c, ks, j, dflt, strict) ==
    IF j > Len(ks) THEN [kind |-> "ok", val |-> c]
    ELSE LET r == LoopStep(c, ks[j], dflt, strict)
         IN IF r.kind = "ok" THEN Walk(r.val, ks, j + 1, dflt, strict)
            ELSE IF CaughtByOuter(r.val) THEN [kind |-> "exc", val |-> c]
            ELSE [kind |-> "raise", val |-> r.val]

\* `return transform(result) if transform else result` of the handler, as
\* the n-th invocation of transform
HandlerOutcome(tr, c, n) ==
    LET r == ApplyTransform(tr, c, n)
    IN IF r.kind = "ok" THEN Return(r.val) ELSE Raise(r.val)

\* mutant of EmptyPathOutcome: the empty path sent through transform like
\* any other result
EmptyPathTransformed(d, tr) ==
    LET r == ApplyTransform(tr, d, 0)
    IN IF r.kind = "ok" THEN Return(r.val) ELSE Raise(r.val)

\* `if not keys: return data`
EmptyPathOutcome(d, tr) == Return(d)

nougat(d, ks, dflt, sep, tr, strict) ==
    IF ks = <<>> THEN EmptyPathOutcome(d, tr)
    ELSE LET sk == SplitKeys(ks, sep)
         IN IF sk.kind = "exc" THEN Raise(sk.val)
            ELSE LET w == Walk(d, sk.val, 1, dflt, strict)
                 IN IF w.kind = "raise" THEN Raise(w.val)
                    ELSE IF w.kind = "exc" THEN HandlerOutcome(tr, w.val, 0)
                    ELSE LET r == ApplyTransform(tr, w.val, 0)
                         IN IF r.kind = "ok" THEN Return(r.val)
                            ELSE IF CaughtByOuter(r.val)
                            THEN HandlerOutcome(tr, w.val, 1)
                            ELSE Raise(r.val)

(***************************************************************************)
(* The values the callers of the model pass.                               *)
(***************************************************************************)
S(chars) == StrV(chars)
\* {"a": 0, "1": None, "": False}: stored falsy values
Inner ==
    DictV(<< <<S(<<"a">>), IntV(0)>>, <<S(<<"1">>), NoneV>>,
             <<S(<<>>), BoolV(0)>> >>)
\* {"a": Inner, "1": ["", False], 0: "a1"}
NestedDict ==
    DictV(<< <<S(<<"a">>), Inner>>,
             <<S(<<"1">>), ListV(<<S(<<>>), BoolV(0)>>)>>,
             <<IntV(0), S(<<"a", "1">>)>> >>)
\* [NoMethods(), Inner]
MixedList == ListV(<<NoMethods, Inner>>)
\* CustomGettable over {"a": None, "1": ("a", 0)}
Gettable ==
    CustomGettable(<< <<S(<<"a">>), NoneV>>,
                      <<S(<<"1">>), TupleV(<<S(<<"a">>), IntV(0)>>)>> >>)
\* CustomSubscriptable over {"a": 0, 1: "a"}
Subscriptable ==
    CustomSubscriptable(<< <<S(<<"a">>), IntV(0)>>, <<IntV(1), S(<<"a">>)>> >>)

DataValues == {NestedDict, MixedList, Gettable, Subscriptable, NoneV}

\* None, a dict that itself has the key "a", and the empty list
Defaults == {NoneV, DictV(<< <<S(<<"a">>), IntV(1)>> >>), ListV(<<>>)}

\* None, "." and the empty string
Separators == {NoneV, S(<<".">>), S(<<>>)}

Transforms == {"none", "len", "flaky"}

\* scalar keys: present and absent strings, a numeric string, indices in and
\* out of range, a negative index, the float -1.0 and an unhashable list
ScalarKeys ==
    {S(<<"a">>), S(<<"x">>), S(<<"1">>), IntV(0), IntV(1), IntV(-1),
     FloatV(-1), ListV(<<IntV(0)>>)}

\* alternative groups
AltGroups ==
    {TupleV(<<S(<<"x">>), S(<<"a">>)>>), TupleV(<<IntV(-1)>>),
     TupleV(<<IntV(2), IntV(0)>>), TupleV(<<S(<<"x">>)>>)}

Steps == ScalarKeys \cup AltGroups

\* single str paths that hold the separator
DottedPaths == {<<S(<<"a", ".", "a">>)>>, <<S(<<"a", ".">>)>>,
                <<S(<<"a", ".", ".", "1">>)>>}

Paths == UNION {[1..n -> Steps] : n \in 0..MaxPath} \cup DottedPaths

(***************************************************************************)
(* The state machine: one call of nougat at a time, from its entry to its  *)
(* return or raise.                                                        *)
(***************************************************************************)
\* no accessor held, and no request made, yet
NoAccessor ==
    [path |-> <<>>, separator |-> NoneV, strict |-> FALSE, set |-> FALSE]
NoRequest ==
    [path_components |-> NoneV, separator |-> NoneV, strict |-> FALSE,
     set |-> FALSE]

Idle ==
    /\ pc = "idle"
    /\ data = NoneV /\ path = <<>> /\ keys = <<>> /\ default = NoneV
    /\ separator = NoneV /\ transform = "none" /\ strict_types = FALSE
    /\ result = NoneV /\ i = 0 /\ exc = NoneV /\ outcome = NoOutcome
    /\ tcalls = 0 /\ prev = NoneV

Init ==
    /\ Idle
    /\ cache = <<>>
    /\ acc = NoAccessor
    /\ req = NoRequest

\* the entry of nougat: the empty-path return, the separator split, and
\* `result = data` at the head of the try block
Enter(d, ks, dflt, sep, tr, strict) ==
    /\ data' = d /\ path' = ks /\ default' = dflt /\ separator' = sep
    /\ transform' = tr /\ strict_types' = strict
    /\ tcalls' = 0 /\ prev' = NoneV /\ exc' = NoneV
    /\ IF ks = <<>>
       THEN /\ keys' = ks /\ result' = NoneV /\ i' = 0
            /\ outcome' = EmptyPathOutcome(d, tr) /\ pc' = "done"
       ELSE LET sk == SplitKeys(ks, sep)
            IN IF sk.kind = "exc"
               THEN /\ keys' = ks /\ result' = NoneV /\ i' = 0
                    /\ outcome' = Raise(sk.val) /\ pc' = "done"
               ELSE /\ keys' = sk.val /\ result' = d /\ i' = 1
                    /\ outcome' = NoOutcome /\ pc' = "loop"

\* a direct call nougat(d, *ks, default=dflt, separator=sep, transform=tr,
\* strict_types=strict)
Call ==
    /\ pc = "idle"
    /\ \E d \in DataValues, ks \in Paths, dflt \in Defaults,
          sep \in Separators, tr \in Transforms, strict \in BOOLEAN :
            Enter(d, ks, dflt, sep, tr, strict)
    /\ UNCHANGED <<cache, acc, req>>

\* one iteration of `for key in keys`: the new cursor, or the jump to the
\* outer handler with the cursor unchanged
Step ==
    /\ pc = "loop" /\ i <= Len(keys)
    /\ LET r == LoopStep(result, keys[i], default, strict_types)
       IN IF r.kind = "ok"
          THEN /\ result' = r.val /\ prev' = result /\ i' = i + 1
               /\ UNCHANGED <<pc, exc, outcome>>
          ELSE /\ exc' = r.val
               /\ IF CaughtByOuter(r.val)
                  THEN pc' = "except" /\ UNCHANGED outcome
                  ELSE pc' = "done" /\ outcome' = Raise(r.val)
               /\ UNCHANGED <<result, prev, i>>
    /\ UNCHANGED <<data, path, keys, default, separator, transform,
                   strict_types, tcalls, cache, acc, req>>

\* after the loop: `res = transform(result) if transform else result;
\* return res`, still inside the try block
Finish ==
    /\ pc = "loop" /\ i > Len(keys)
    /\ IF transform = "none"
       THEN /\ outcome' = Return(result) /\ pc' = "done"
            /\ UNCHANGED <<exc, tcalls>>
       ELSE LET r == ApplyTransform(transform, result, tcalls)
            IN /\ tcalls' = tcalls + 1
               /\ IF r.kind = "ok"
                  THEN /\ outcome' = Return(r.val) /\ pc' = "done"
                       /\ UNCHANGED exc
                  ELSE /\ exc' = r.val
                       /\ IF CaughtByOuter(r.val)
                          THEN pc' = "except" /\ UNCHANGED outcome
                          ELSE pc' = "done" /\ outcome' = Raise(r.val)
    /\ UNCHANGED <<data, path, keys, default, separator, transform,
                   strict_types, result, i, prev, cache, acc, req>>

\* `except Exception: return transform(result) if transform else result`
Handler ==
    /\ pc = "except"
    /\ outcome' = HandlerOutcome(transform, result, tcalls)
    /\ tcalls' = IF transform = "none" THEN tcalls ELSE tcalls + 1
    /\ pc' = "done"
    /\ UNCHANGED <<data, path, keys, default, separator, transform,
                   strict_types, result, i, exc, prev, cache, acc, req>>

\* the caller takes the outcome; the next call starts from a fresh frame
Exit ==
    /\ pc = "done"
    /\ pc' = "idle"
    /\ data' = NoneV /\ path' = <<>> /\ keys' = <<>> /\ default' = NoneV
    /\ separator' = NoneV /\ transform' = "none" /\ strict_types' = FALSE
    /\ result' = NoneV /\ i' = 0 /\ exc' = NoneV /\ outcome' = NoOutcome
    /\ tcalls' = 0 /\ prev' = NoneV
    /\ UNCHANGED <<cache, acc, req>>

Next == Call \/ Step \/ Finish \/ Handler \/ Exit

Spec == Init /\ [][Next]_vars

(***************************************************************************)
(* The cached accessor factory.  `cache` is the lru_cache of               *)
(* _make_path_accessor, least recently used first; an entry is the closure *)
(* built for the arguments of the call that missed.  `acc` is the accessor *)
(* the caller holds and `req` the arguments it was asked for.              *)
(***************************************************************************)
\* the arguments nougat_cached is called with in the model: hashable paths
\* as tuples of steps, and single strings
CachedPathComponents ==
    {TupleV(<<IntV(-1)>>), TupleV(<<FloatV(-1)>>),
     TupleV(<<S(<<"a">>), S(<<"1">>)>>), S(<<"a", ".", "a">>)}
CachedSeparators == {NoneV, S(<<".">>)}
CachedData == {NestedDict, MixedList, NoneV}
CachedDefaults == {NoneV, ListV(<<>>)}

\* the body of nougat_cached before the cached call: the path tuple
PathTuple(path_components, sep) ==
    IF IsStr(path_components) /\ sep # NoneV /\ sep.v # <<>>
    THEN StrSplit(path_components, sep).val.v
    ELSE IF IsListOrTuple(path_components) THEN path_components.v
    ELSE <<path_components>>

\* the closure _make_path_accessor builds
accessor(p, sep, strict) ==
    [path |-> p, separator |-> sep, strict |-> strict, set |-> TRUE]

\* equality of two cache keys (path, separator, strict), as the cache's
\* dictionary compares them
SameKey(a, p, sep, strict) ==
    /\ PyEq(TupleV(a.path), TupleV(p))
    /\ PyEq(a.separator, sep)
    /\ a.strict = strict

CacheHit(c, p, sep, strict) ==
    \E j \in 1..Len(c) : SameKey(c[j], p, sep, strict)
CacheIndex(c, p, sep, strict) ==
    CHOOSE j \in 1..Len(c) : SameKey(c[j], p, sep, strict)
Without(c, j) == SubSeq(c, 1, j - 1) \o SubSeq(c, j + 1, Len(c))

\* _make_path_accessor(p, sep, strict) under lru_cache: the accessor it
\* returns and the cache afterwards.  A hit returns the stored accessor and
\* makes it the most recently used; a miss builds one, stores it, and at
\* capacity evicts the least recently used entry
_make_path_accessor(c, p, sep, strict) ==
    IF CacheHit(c, p, sep, strict)
    THEN LET j == CacheIndex(c, p, sep, strict)
         IN [value |-> c[j], cache |-> Append(Without(c, j), c[j])]
    ELSE LET a == accessor(p, sep, strict)
             kept == IF Len(c) >= CacheCapacity THEN Tail(c) ELSE c
         IN [value |-> a, cache |-> Append(kept, a)]

\* f = nougat_cached(path_components, sep, strict)
nougat_cached ==
    /\ pc = "idle"
    /\ \E pcs \in CachedPathComponents, sep \in CachedSeparators,
          strict \in BOOLEAN :
            LET r == _make_path_accessor(cache, PathTuple(pcs, sep), sep, strict)
            IN /\ cache' = r.cache
               /\ acc' = r.value
               /\ req' = [path_components |-> pcs, separator |-> sep,
                          strict |-> strict, set |-> TRUE]
    /\ UNCHANGED <<pc, data, path, keys, default, separator, transform,
                   strict_types, result, i, exc, outcome, tcalls, prev>>

\* f(d, dflt, tr): the accessor calls nougat with its own path, separator
\* and strict flag
Invoke ==
    /\ pc = "idle"
    /\ acc.set
    /\ \E d \in CachedData, dflt \in CachedDefaults, tr \in Transforms :
            Enter(d, acc.path, dflt, acc.separator, tr, acc.strict)
    /\ UNCHANGED <<cache, acc, req>>

NextCached == nougat_cached \/ Invoke \/ Step \/ Finish \/ Handler \/ Exit

SpecCached == Init /\ [][NextCached]_vars

(***************************************************************************)
(* Notions the properties below are stated with.  They describe the data,  *)
(* not the traversal: what a container stores under a key.                 *)
(***************************************************************************)
Missing == [kind |-> "missing", val |-> NoneV]

\* a cursor with none of the lookup capabilities
NoCapability(c) ==
    ~IsDict(c) /\ ~IsListOrTuple(c) /\ ~HasGet(c) /\ ~HasGetItem(c)

\* the value a mapping, a get-capable object or a list/tuple stores under a
\* scalar key: a key of the mapping, or a position 0 <= k < n of the sequence
StoredAt(c, key) ==
    IF c.t \in {"dict", "CustomGettable"}
    THEN IF Hashable(key) /\ DictHas(c.v, key)
         THEN Ok(DictAt(c.v, key)) ELSE Missing
    ELSE IF IsListOrTuple(c)
    THEN IF IsInt(key) /\ 0 <= key.v /\ key.v < Len(c.v)
         THEN Ok(c.v[key.v + 1]) ELSE Missing
    ELSE Missing

\* the value stored at a path of scalar keys, from step j on
RECURSIVE StoredAtPath(_, _, _)
StoredAtPath(c, ks, j) ==
    IF j > Len(ks) THEN Ok(c)
    ELSE LET r == StoredAt(c, ks[j])
         IN IF r.kind = "ok" THEN StoredAtPath(r.val, ks, j + 1) ELSE Missing

AllScalar(ks) == \A j \in 1..Len(ks) : ~IsTuple(ks[j])

\* a scalar key that is plainly not there: a hashable key absent from a
\* mapping or get-capable object, an int outside 0..n-1 of a list or tuple,
\* or any key against a value with no lookup capability
AbsentStep(c, key) ==
    \/ c.t \in {"dict", "CustomGettable"} /\ Hashable(key) /\ ~DictHas(c.v, key)
    \/ IsListOrTuple(c) /\ IsInt(key) /\ ~(0 <= key.v /\ key.v < Len(c.v))
    \/ NoCapability(c)

\* a path of scalar keys whose steps before j are stored in the data and
\* whose step j is absent
FirstMissAt(d, ks, j) ==
    /\ j \in 1..Len(ks)
    /\ LET r == StoredAtPath(d, SubSeq(ks, 1, j - 1), 1)
       IN r.kind = "ok" /\ AbsentStep(r.val, ks[j])

MissingPath(d, ks) == AllScalar(ks) /\ \E j \in 1..Len(ks) : FirstMissAt(d, ks, j)

\* the first candidate of a group that a mapping or sequence cursor stores
FirstStored(c, group) ==
    IF \E j \in 1..Len(group) : StoredAt(c, group[j]).kind = "ok"
    THEN StoredAt(c, group[CHOOSE j \in 1..Len(group) :
                        /\ StoredAt(c, group[j]).kind = "ok"
                        /\ \A k \in 1..(j - 1) : StoredAt(c, group[k]).kind # "ok"])
    ELSE Missing

\* the call entered its loop: the path is not empty and was split, if at all,
\* without error
Walked == i >= 1

\* the step the loop completed last: it took the cursor from prev to result
Stepped == pc = "loop" /\ i > 1
LastKey == keys[i - 1]

\* the value x as the call hands it back: transform(x), or x with no transform
Transformed(x) ==
    IF transform = "none" THEN Return(x)
    ELSE LET r == ApplyTransform(transform, x, 0)
         IN IF r.kind = "ok" THEN Return(r.val) ELSE Raise(r.val)

(***************************************************************************)
(* C1.  Missing-path default, as claimed: a non-strict call without        *)
(* transform whose path is not present in the data returns exactly the     *)
(* default, however many steps follow the first failing step.              *)
(* The code keeps walking: the steps after the miss are resolved against   *)
(* the default itself, so a default that holds the next key is traversed.  *)
(***************************************************************************)
C1_MissingPathReturnsDefault ==
    (/\ pc = "done" /\ Walked /\ ~strict_types /\ transform = "none"
     /\ MissingPath(data, keys))
        => outcome = Return(default)

(***************************************************************************)
(* C2.  Strict mode, as claimed: a scalar step against a cursor with no    *)
(* lookup capability raises TypeError to the caller when strict_types is   *)
(* True, and the same one-step call with strict_types False returns the    *)
(* default.  The code raises inside its own `try`, whose `except           *)
(* Exception` catches the TypeError and returns the cursor.                *)
(***************************************************************************)
StrictFault ==
    /\ i \in 1..Len(keys) /\ ~IsTuple(keys[i]) /\ NoCapability(result)

C2_StrictRaisesTypeError ==
    /\ (pc = "done" /\ strict_types /\ StrictFault)
            => outcome = Raise(ExcV("TypeError"))
    /\ (/\ pc = "done" /\ Walked /\ ~strict_types /\ transform = "none"
        /\ Len(keys) = 1 /\ ~IsTuple(keys[1]) /\ NoCapability(data))
            => outcome = Return(default)

(***************************************************************************)
(* C3.  Non-strict calls never raise for data-shape mismatches: a call     *)
(* with strict_types False, no transform and a non-empty path returns a    *)
(* value, whatever the data and the keys (absent, unhashable, non-numeric  *)
(* strings against sequences and strings, alternative groups, None and     *)
(* capability-less intermediates).  The separator is None or non-empty:    *)
(* an empty separator is rejected by str.split before the traversal.       *)
(***************************************************************************)
C3_NonStrictNeverRaises ==
    (/\ pc = "done" /\ ~strict_types /\ transform = "none"
     /\ path # <<>> /\ separator # S(<<>>))
        => outcome.kind = "return"

\* a non-strict call in which a lookup raised (the int coercion of a
\* non-numeric string, an unhashable key) and which returned a value
C3_Witness ==
    /\ pc = "done" /\ ~strict_types /\ transform = "none"
    /\ exc # NoneV /\ outcome.kind = "return"

(***************************************************************************)
(* C4.  Alternative-group first match, as claimed: after an alternative    *)
(* step the cursor is the value of the first candidate the cursor stores;  *)
(* a later candidate present in a mapping wins over earlier absent ones.   *)
(* The code calls result.get(alt_key) without a sentinel on get-capable    *)
(* cursors and breaks at once, so the first candidate always "matches",    *)
(* with None when it is absent.                                            *)
(***************************************************************************)
C4_AlternativeFirstMatch ==
    (/\ Stepped /\ IsTuple(LastKey)
     /\ FirstStored(prev, LastKey.v).kind = "ok")
        => result = FirstStored(prev, LastKey.v).val

(***************************************************************************)
(* C5.  Sequence indexing bounds, as claimed: an int key k against a list  *)
(* or tuple of length n takes the element at k iff 0 <= k < n, as a scalar *)
(* step and as a candidate of an alternative group alike; a negative index *)
(* never resolves.  The group branch subscripts with result[alt_key],      *)
(* where Python counts a negative index from the end.                      *)
(***************************************************************************)
AllInts(group) == \A j \in 1..Len(group) : IsInt(group[j])

C5_SequenceIndexBounds ==
    /\ (Stepped /\ IsListOrTuple(prev) /\ IsInt(LastKey))
            => result = (IF StoredAt(prev, LastKey).kind = "ok"
                         THEN StoredAt(prev, LastKey).val ELSE default)
    /\ (/\ Stepped /\ IsListOrTuple(prev) /\ IsTuple(LastKey)
        /\ AllInts(LastKey.v))
            => result = (IF FirstStored(prev, LastKey.v).kind = "ok"
                         THEN FirstStored(prev, LastKey.v).val ELSE default)

(***************************************************************************)
(* C6.  Cached accessor equivalence, as claimed: whatever calls came       *)
(* before, nougat_cached(P, separator, strict)(data, default, transform)   *)
(* gives what nougat(data, *P, default, separator, transform, strict)      *)
(* gives (a single str P is the one-step path P).  The cache compares keys *)
(* with ==, so a path equal to an earlier one but made of other values     *)
(* (-1 and -1.0) is served the earlier path's accessor.                    *)
(***************************************************************************)
ReqKeys ==
    IF IsListOrTuple(req.path_components) THEN req.path_components.v
    ELSE <<req.path_components>>

C6_CachedAccessorEquivalence ==
    (pc = "done" /\ req.set)
        => outcome = nougat(data, ReqKeys, default, req.separator, transform,
                            req.strict)

(***************************************************************************)
(* C7.  Present-value fidelity: when every step of a path of scalar keys   *)
(* is stored in the data (a key of a mapping or of a get-capable object, a *)
(* position of a list or tuple), a call without transform returns the      *)
(* stored value as stored, for any default and either strict flag: a       *)
(* stored 0, "", False or None, or a stored value equal to the default, is *)
(* never replaced.                                                         *)
(***************************************************************************)
C7_PresentValueFidelity ==
    (/\ pc = "done" /\ Walked /\ transform = "none" /\ AllScalar(keys)
     /\ StoredAtPath(data, keys, 1).kind = "ok")
        => outcome = Return(StoredAtPath(data, keys, 1).val)

\* a get-capable object that stores None under the key, asked with a
\* default that is not None, hands back the stored None
C7_Witness ==
    /\ pc = "done" /\ Walked /\ transform = "none" /\ AllScalar(keys)
    /\ data.t = "CustomGettable" /\ default # NoneV
    /\ StoredAtPath(data, keys, 1) = Ok(NoneV)
    /\ outcome = Return(NoneV)

(***************************************************************************)
(* C8.  Dot-path equivalence: a call with a single str path p and a        *)
(* separator s has the outcome of the call with the pieces p.split(s) as   *)
(* individual steps and the same default, transform and strict flag; for   *)
(* the empty separator both p.split(s) and the call raise ValueError.      *)
(* Adjacent or trailing separators give empty-string steps, looked up like *)
(* any other key.                                                          *)
(***************************************************************************)
C8_DotPathEquivalence ==
    (pc = "done" /\ Len(path) = 1 /\ IsStr(path[1]) /\ separator # NoneV)
        => LET pieces == StrSplit(path[1], separator)
           IN IF pieces.kind = "exc" THEN outcome = Raise(pieces.val)
              ELSE outcome = nougat(data, pieces.val.v, default, NoneV,
                                    transform, strict_types)

\* "a." split on "." walks "a" and then the empty string, which the inner
\* dict stores False under
C8_Witness ==
    /\ pc = "done" /\ data = NestedDict /\ transform = "none"
    /\ path = <<S(<<"a", ".">>)>> /\ separator = S(<<".">>)
    /\ keys = <<S(<<"a">>), S(<<>>)>>
    /\ outcome = Return(BoolV(0))

(***************************************************************************)
(* C9.  Transform is applied iff the path is non-empty: a call with an     *)
(* empty path returns the data itself and never invokes transform; a call  *)
(* that walks a non-empty path invokes its transform, and what it returns  *)
(* is transform(final cursor), the cursor being a resolved value or the    *)
(* default alike; without a transform it returns the final cursor.         *)
(* (A call whose single str path is split on the empty separator is        *)
(* rejected by str.split before the walk and is no case of the claim.)     *)
(***************************************************************************)
C9_TransformIffNonEmptyPath ==
    pc = "done"
        => /\ path = <<>> => (outcome = Return(data) /\ tcalls = 0)
           /\ (Walked /\ transform = "none")
                => (outcome = Return(result) /\ tcalls = 0)
           /\ (Walked /\ transform # "none")
                => /\ tcalls >= 1
                   /\ outcome.kind = "return"
                        => Ok(outcome.val)
                            = ApplyTransform(transform, result, tcalls - 1)

\* a missing path with default [] and transform len returns 0
C9_Witness ==
    /\ pc = "done" /\ transform = "len" /\ default = ListV(<<>>)
    /\ MissingPath(data, keys) /\ result = default
    /\ outcome = Return(IntV(0))

\* an empty path with a transform returns the data, not its length
C9_WitnessEmptyPath ==
    /\ pc = "done" /\ path = <<>> /\ transform = "len" /\ data = NestedDict
    /\ outcome = Return(NestedDict)

(***************************************************************************)
(* C10.  Exception-to-default, as claimed: in non-strict mode a step whose *)
(* lookup raises resolves the call to the default (transformed if a        *)
(* transform is given).  The outer handler returns transform(result) with  *)
(* result still the cursor held before the failing step.                   *)
(***************************************************************************)
C10_ExceptionResolvesToDefault ==
    (pc = "done" /\ ~strict_types /\ exc # NoneV /\ i \in 1..Len(keys))
        => outcome = Transformed(default)

(***************************************************************************)
(* C11.  Alternative-group exhaustion, as claimed: when no candidate of a  *)
(* group resolves against a mapping, get-capable or sequence cursor, the   *)
(* cursor becomes the caller's default and the walk goes on; a group that  *)
(* is the last step makes the call return default.  (For a sequence, a     *)
(* group with an int that counts from the end is left out here: C5 is      *)
(* about it.)  On a get-capable cursor the code takes result.get(alt_key), *)
(* which is None for an absent key, and leaves the group at once: the      *)
(* `else: result = default` of the for loop is never reached.              *)
(***************************************************************************)
\* no candidate of the group is stored in the cursor, nor subscripts it
NoneResolves(c, group) ==
    /\ c.t \in {"dict", "CustomGettable", "list", "tuple"}
    /\ FirstStored(c, group) = Missing
    /\ IsListOrTuple(c)
        => \A j \in 1..Len(group) : GetItem(c, group[j]).kind = "exc"

C11_ExhaustedGroupYieldsDefault ==
    /\ (Stepped /\ IsTuple(LastKey) /\ NoneResolves(prev, LastKey.v))
            => result = default
    /\ (/\ pc = "done" /\ Walked /\ exc = NoneV /\ transform = "none"
        /\ i = Len(keys) + 1 /\ IsTuple(keys[Len(keys)])
        /\ NoneResolves(prev, keys[Len(keys)].v))
            => outcome = Return(default)

(***************************************************************************)
(* C12.  Transform errors are not swallowed, as claimed: when transform    *)
(* raises on the final value of a walked path, that error reaches the      *)
(* caller and the call does not return.  The code applies transform inside *)
(* the try block, so its error lands in `except Exception`, which invokes  *)
(* transform a second time and returns what that invocation returns.       *)
(***************************************************************************)
\* transform raised after the loop had consumed every key
TransformRaised == Walked /\ i > Len(keys) /\ exc # NoneV

C12_TransformErrorReachesCaller ==
    (pc = "done" /\ TransformRaised) => outcome = Raise(exc)

====
